---- MODULE Spec2Model ----
(***************************************************************************)
(* Interactive GLM generation (inference_glm.py): the prompt broadcast     *)
(* between model-parallel ranks (read_context), the logits filter          *)
(* (top_k_logits), the decoding loop (sample_sequence) and the blank       *)
(* infilling driver (generate_samples).                                    *)
(*                                                                         *)
(* Numbers.  A logit is an integer n that stands for the real logit        *)
(* n * ln 2, so that exp(logit) = 2^n is an integer weight and every       *)
(* softmax probability is the exact rational Weight / total weight.        *)
(* NegInf stands for -float('Inf') (weight 0).  top_p is the rational      *)
(* num / den, written <<num, den>>.  Arithmetic is exact: rounding of      *)
(* floating point numbers is not modelled.                                 *)
(***************************************************************************)
EXTENDS Integers, Sequences, FiniteSets, TLC

\* ------------------------------------------------------------------------
\* Bounds of the model
\* ------------------------------------------------------------------------
MaxVocab == 3        \* longest logits row fed to top_k_logits on its own
MaxTemperature == 2  \* args.temperature ranges over 1..MaxTemperature there
MaxLogit == 2        \* logits range over 0..MaxLogit
MaxTopK == 3         \* top_k ranges over 0..MaxTopK
TopPDen == 4         \* top_p ranges over 0/TopPDen .. (TopPDen-1)/TopPDen

\* ------------------------------------------------------------------------
\* top_k_logits (inference_glm.py:104-129)
\* ------------------------------------------------------------------------
\* filter_value = -float('Inf'): below every finite logit, softmax weight 0.
NegInf == -1

\* exp() of a logit, in units where exp(n * ln 2) = 2^n; exp(-inf) = 0.
Weight(l) == IF l = NegInf THEN 0 ELSE 2 ^ l

RECURSIVE SumOver(_, _)
SumOver(f, S) ==
    IF S = {} THEN 0
    ELSE LET i == CHOOSE j \in S : TRUE IN f[i] + SumOver(f, S \ {i})

\* torch.topk(logits, top_k)[0][..., -1]: the top_k-th largest value of the
\* row (counted with multiplicity). Defined for 1 <= top_k <= size of row.
KthLargest(logits, k) ==
    CHOOSE v \in {logits[i] : i \in DOMAIN logits} :
        /\ Cardinality({i \in DOMAIN logits : logits[i] > v}) < k
        /\ Cardinality({i \in DOMAIN logits : logits[i] >= v}) >= k

\* The comparison of line 110 with <= in place of <.
TopKRemoveLE(logits, top_k) ==
    {i \in DOMAIN logits : logits[i] <= KthLargest(logits, top_k)}

\* indices_to_remove = logits < torch.topk(logits, top_k)[0][..., -1, None]
TopKRemove(logits, top_k) ==
    {i \in DOMAIN logits : logits[i] < KthLargest(logits, top_k)}

\* logits[indices_to_remove] = filter_value
Masked(logits, remove) ==
    [i \in DOMAIN logits |-> IF i \in remove THEN NegInf ELSE logits[i]]

\* torch.sort(logits, descending=True): every order of the indices that is
\* descending in the values. The sort is not stable, so the order of equal
\* entries is any of them.
SortedIndices(logits) ==
    LET n == Cardinality(DOMAIN logits)
    IN {p \in [1..n -> DOMAIN logits] :
          /\ \A a, b \in 1..n : a # b => p[a] # p[b]
          /\ \A a \in 1..n : a < n => logits[p[a]] >= logits[p[a + 1]]}

\* torch.cumsum(F.softmax(sorted_logits)) as numerators over the total weight:
\* CumWeight(.., m) / TotalWeight(..) is cumulative_probs[m-1].
CumWeight(logits, p, m) ==
    SumOver([a \in 1..m |-> Weight(logits[p[a]])], 1..m)

TotalWeight(logits) ==
    SumOver([i \in DOMAIN logits |-> Weight(logits[i])], DOMAIN logits)

\* cumulative_probs > top_p at sorted place a (1-based)
AboveTopP(logits, p, a, top_p) ==
    CumWeight(logits, p, a) * top_p[2] > top_p[1] * TotalWeight(logits)

\* Lines 120-124 without the shift of line 122.
TopPRemoveNoShift(logits, p, top_p) ==
    {p[a] : a \in {b \in 2..Cardinality(DOMAIN logits) :
                       AboveTopP(logits, p, b, top_p)}}

\* Lines 120-124: flag the places whose cumulative probability is above
\* top_p, shift the flags one place right, clear the first, and take the
\* indices of the flagged places.
TopPRemove(logits, p, top_p) ==
    {p[a] : a \in {b \in 2..Cardinality(DOMAIN logits) :
                       AboveTopP(logits, p, b - 1, top_p)}}

\* Lines 108-111 when torch.topk does not raise: the row as it enters the
\* top_p branch.
AfterTopK(logits, top_k) ==
    IF top_k > 0 THEN Masked(logits, TopKRemove(logits, top_k)) ELSE logits

\* torch.topk(logits, top_k) raises RuntimeError when top_k exceeds the size
\* of the row.
TopKRaises(logits, top_k) == top_k > Cardinality(DOMAIN logits)

\* The test of line 113 with >= in place of >.
TopPOnAlways(top_p) == top_p[1] >= 0

\* Line 113: if top_p > 0.0
TopPOn(top_p) == top_p[1] > 0

\* top_k_logits: the set of outcomes of the call, one per order the sort may
\* give to equal entries: the row returned, or the error raised.
top_k_logits(logits, top_k, top_p) ==
    IF TopKRaises(logits, top_k)
    THEN {[raised |-> "RuntimeError", logits |-> logits]}
    ELSE LET l1 == AfterTopK(logits, top_k)
         IN IF TopPOn(top_p)
            THEN {[raised |-> "none", logits |-> Masked(l1, TopPRemove(l1, p, top_p))] :
                     p \in SortedIndices(l1)}
            ELSE {[raised |-> "none", logits |-> l1]}

\* ------------------------------------------------------------------------
\* Tokenizer (external collaborator: get_command, EncodeAsIds, DecodeIds)
\* ------------------------------------------------------------------------
\* Ids of the named control tokens; all distinct, and distinct from words.
get_command(name) ==
    CASE name = "ENC" -> 1
      [] name = "eos" -> 0
      [] name = "eop" -> 3
      [] name = "sop" -> 4
      [] name = "MASK" -> 6
      [] name = "sMASK" -> 8
      [] name = "gMASK" -> 9

\* A raw text is a sequence of words; a word is a plain word or the text of
\* a mask marker. EncodeAsIds maps each word to its id.
WordId(w) ==
    CASE w = "w10" -> 10
      [] w = "w20" -> 20
      [] w = "[MASK]" -> get_command("MASK")
      [] w = "[sMASK]" -> get_command("sMASK")
      [] w = "[gMASK]" -> get_command("gMASK")

EncodeAsIds(raw_text) == [i \in 1..Len(raw_text) |-> WordId(raw_text[i])]

\* DecodeIds gives the text of each id back.
IdWord(t) ==
    CASE t = 10 -> "w10"
      [] t = 20 -> "w20"
      [] t = get_command("MASK") -> "[MASK]"
      [] t = get_command("sMASK") -> "[sMASK]"
      [] t = get_command("gMASK") -> "[gMASK]"
      [] t = get_command("ENC") -> "[CLS]"
      [] t = get_command("eos") -> "<|endoftext|>"
      [] t = get_command("eop") -> "<|endofpiece|>"
      [] t = get_command("sop") -> "<|startofpiece|>"
      [] OTHER -> "<unk>"

DecodeIds(ids) == [i \in 1..Len(ids) |-> IdWord(ids[i])]

\* 'MASK]' in raw_text
ContainsMaskText(raw_text) ==
    \E i \in 1..Len(raw_text) : raw_text[i] \in {"[MASK]", "[sMASK]", "[gMASK]"}

\* raw_text.endswith('MASK]')
EndsWithMaskText(raw_text) ==
    /\ Len(raw_text) > 0
    /\ raw_text[Len(raw_text)] \in {"[MASK]", "[sMASK]", "[gMASK]"}

\* ------------------------------------------------------------------------
\* Bounds of the session
\* ------------------------------------------------------------------------
NumRanks == 2          \* model-parallel ranks 0..NumRanks-1
OutSeqLength == 2      \* args.out_seq_length of the session
MaxSeqLength == 6      \* args.max_sequence_length of the session
MaxOutSeq == 4         \* largest args.out_seq_length of a direct call
MaxRejected == 1       \* prompts written to the output and then rejected,
                       \* per round

Ranks == 0..(NumRanks - 1)

\* mpu.get_model_parallel_src_rank(): the rank that reads the prompt.
SrcRank == 0

\* What the user may type at the prompt.
Prompts ==
    { <<>>,
      <<"stop">>,
      <<"w10">>,
      <<"w10", "[MASK]", "w20", "[MASK]">>,
      <<"[gMASK]", "[MASK]", "w10">>,
      <<"[sMASK]", "w10">>,
      [i \in 1..(MaxSeqLength - 1) |-> "w20"] }

VARIABLES
    args,            \* the configuration (get_args)
    pc,              \* pc[r]: where rank r is
    terminate_runs,  \* read_context: terminate_runs of each rank
    raw_text,        \* read_context: raw_text of each rank
    context_tokens,  \* read_context: context_tokens / context_tokens_tensor
    context_length,  \* read_context: context_length of each rank
    chan,            \* chan[r]: tensors broadcast by the source rank that
                     \* rank r has not received yet, in order
    barrier,         \* the ranks waiting in a barrier, and those released
    issued,          \* issued[r]: collectives rank r issued in this round
    output,          \* what rank 0 wrote to the sample file in this round
    gs,              \* generate_samples: locals of each rank, and the
                     \* record of its calls of sample_sequence: the mask
                     \* positions handed over (called), the tokens each call
                     \* generated (spans) and the position ids it gave the
                     \* model (span_position_ids)
    ss,              \* sample_sequence: frame of each rank
    forwards,        \* forwards[r]: model calls of rank r in this round
    lt,              \* a call of top_k_logits on its own
    sg,              \* ChatModel.stream_generate: two runs of one call
    prep             \* a call of ChatModel.prepare_inputs_for_generation

vars == <<args, pc, terminate_runs, raw_text, context_tokens, context_length,
          chan, barrier, issued, output, gs, ss, forwards, lt, sg, prep>>

\* A variable that may hold no value (Python None, or a local not assigned
\* yet) holds None or Some(v); Val gives v back.
None == {}
Some(v) == {v}
Val(o) == CHOOSE v \in o : TRUE

NoFrame ==
    [caller |-> "none", context_tokens |-> <<>>, tokens |-> <<>>,
     counter |-> 0, context_length |-> 0, mems |-> 0, end_tokens |-> {},
     arg_mems |-> None, arg_end_tokens |-> None, call |-> 0,
     prev |-> None, position_ids |-> <<>>, result |-> None,
     raised |-> "none",
     beam_scores |-> None, beam_idx |-> None, last_beam_num |-> None]

NoLocals ==
    [tokens |-> <<>>, position_ids |-> <<>>, mask_positions |-> <<>>,
     next |-> 1, mems |-> 0, end_tokens |-> {}, called |-> <<>>,
     spans |-> <<>>, span_position_ids |-> <<>>]

NoLogitsCall ==
    [pc |-> "idle", logits |-> <<>>, top_k |-> 0, top_p |-> <<0, 1>>,
     out |-> [raised |-> "none", logits |-> <<>>],
     out2 |-> [raised |-> "none", logits |-> <<>>]]

NoStream ==
    [pc |-> "idle", do_sample |-> FALSE, eos_token_id |-> {}, max_length |-> 0,
     logits_processor |-> "none", run |-> <<>>]

NoModelInputs ==
    [raised |-> "none", input_ids |-> <<>>, position_ids |-> <<>>,
     attention_mask |-> None]

NoPrepare ==
    [pc |-> "idle", input_ids |-> <<>>, past |-> FALSE,
     position_encoding_2d |-> FALSE, bos_token_id |-> 0,
     model_inputs |-> NoModelInputs]

\* The session's configuration: what main() leaves in args before
\* generate_samples runs (args.eod_token is set at line 283).
SessionArgs ==
    [block_lm : BOOLEAN, task_mask : BOOLEAN, no_block_position : BOOLEAN,
     num_beams : {1}, out_seq_length : {OutSeqLength},
     max_sequence_length : {MaxSeqLength}, temperature : {1},
     top_k : {1}, top_p : {<<0, 1>>},
     eod_token : {get_command("eos")}]

\* generate_samples is entered by every rank (main, line 292).
Init ==
    /\ args \in SessionArgs
    /\ pc = [r \in Ranks |-> "barrier"]
    /\ terminate_runs = [r \in Ranks |-> 0]
    /\ raw_text = [r \in Ranks |-> None]
    /\ context_tokens = [r \in Ranks |-> None]
    /\ context_length = [r \in Ranks |-> None]
    /\ chan = [r \in Ranks |-> <<>>]
    /\ barrier = [waiting |-> {}, released |-> {}]
    /\ issued = [r \in Ranks |-> <<>>]
    /\ output = <<>>
    /\ gs = [r \in Ranks |-> NoLocals]
    /\ ss = [r \in Ranks |-> NoFrame]
    /\ forwards = [r \in Ranks |-> <<>>]
    /\ lt = NoLogitsCall
    /\ sg = NoStream
    /\ prep = NoPrepare

\* The ranks that run: a rank that is idle takes no part in any collective.
Group == {r \in Ranks : pc[r] # "idle"}

\* ------------------------------------------------------------------------
\* Collectives of the model-parallel group
\* ------------------------------------------------------------------------
\* torch.distributed.barrier, first half: rank r enters the barrier; the
\* last rank of the group to enter releases them all. The barrier of line
\* 238 opens a round: the records of the round start anew.
EnterBarrier(r) ==
    /\ pc[r] \in {"barrier", "end_barrier"}
    /\ barrier' = IF barrier.waiting \cup {r} = Ranks
                  THEN [waiting |-> {}, released |-> barrier.released \cup Ranks]
                  ELSE [barrier EXCEPT !.waiting = @ \cup {r}]
    /\ issued' = [issued EXCEPT ![r] =
                    IF pc[r] = "barrier" THEN <<"barrier">>
                    ELSE Append(@, "barrier")]
    /\ forwards' = [forwards EXCEPT ![r] = IF pc[r] = "barrier" THEN <<>> ELSE @]
    /\ output' = IF pc[r] = "barrier" /\ r = SrcRank THEN <<>> ELSE output
    /\ pc' = [pc EXCEPT ![r] =
                IF pc[r] = "barrier" THEN "barrier_wait" ELSE "end_barrier_wait"]
    /\ UNCHANGED <<args, terminate_runs, raw_text, context_tokens,
                   context_length, chan, gs, ss, lt, sg, prep>>

\* torch.distributed.barrier, second half: rank r leaves once released.
\* Leaving the barrier of line 238 the rank calls read_context (lines 29 and
\* 57: fresh locals); leaving the barrier of line 277 it loops back to line
\* 238.
LeaveBarrier(r) ==
    /\ pc[r] \in {"barrier_wait", "end_barrier_wait"}
    /\ r \in barrier.released
    /\ barrier' = [barrier EXCEPT !.released = @ \ {r}]
    /\ IF pc[r] = "barrier_wait"
       THEN /\ pc' = [pc EXCEPT ![r] =
                        IF r = SrcRank THEN "read_context" ELSE "bcast_flag"]
            /\ terminate_runs' = [terminate_runs EXCEPT ![r] = 0]
            /\ raw_text' = [raw_text EXCEPT ![r] = None]
            /\ context_tokens' = [context_tokens EXCEPT ![r] = None]
            /\ context_length' = [context_length EXCEPT ![r] =
                                    IF r = SrcRank THEN None ELSE Some(0)]
            /\ gs' = [gs EXCEPT ![r] = NoLocals]
       ELSE /\ pc' = [pc EXCEPT ![r] = "barrier"]
            /\ UNCHANGED <<terminate_runs, raw_text, context_tokens,
                           context_length, gs>>
    /\ UNCHANGED <<args, chan, issued, output, ss, forwards, lt, sg, prep>>

\* torch.distributed.broadcast(tensor, src): what rank r's tensor holds
\* afterwards. The source's tensor is sent as it is; another rank's tensor
\* is overwritten by the next tensor the source sent, which must have the
\* size of the receiving tensor.
BroadcastOk(r, tensor) ==
    r = SrcRank \/ (chan[r] # <<>> /\ Len(Head(chan[r])) = Len(tensor))

\* A broadcast that leaves the tensor of the receiving rank as it was.
ReceivedNothing(r, tensor) == tensor

Received(r, tensor) == IF r = SrcRank THEN tensor ELSE Head(chan[r])

Broadcast(r, tensor) ==
    IF r = SrcRank
    THEN [q \in Ranks |-> IF q = r THEN chan[q] ELSE Append(chan[q], tensor)]
    ELSE [chan EXCEPT ![r] = Tail(@)]

\* ------------------------------------------------------------------------
\* read_context (inference_glm.py:28-80)
\* ------------------------------------------------------------------------
\* Lines 39-41: the text with the generation mask added when block mode
\* finds no mask in it.
PromptText(text) ==
    LET generation_mask == IF args.task_mask THEN "[gMASK]" ELSE "[MASK]"
    IN IF args.block_lm /\ ~ContainsMaskText(text)
       THEN Append(text, generation_mask)
       ELSE text

\* Lines 44-48: the context tokens of a text.
PromptTokens(text) ==
    LET ids == EncodeAsIds(text)
    IN IF args.block_lm
       THEN IF ~EndsWithMaskText(text)
            THEN <<get_command("ENC")>> \o ids \o <<get_command("eos")>>
            ELSE <<get_command("ENC")>> \o ids
       ELSE ids

\* The check of line 51 left out.
FitsWindowAlways(tokens) == TRUE

\* A prompt passes the check of line 51.
FitsWindow(tokens) == ~(Len(tokens) >= args.max_sequence_length)

\* The test of line 33 never taken.
EmptyPromptNever(text) == FALSE

\* Line 33: if not raw_text
EmptyPrompt(text) == text = <<>>

\* Lines 31-55 on rank 0: one turn of the input loop, on the line `line`.
ReadPrompt(line) ==
    /\ pc[SrcRank] = "read_context"
    /\ Len(output) <= MaxRejected
    /\ IF EmptyPrompt(line)
       THEN /\ raw_text' = [raw_text EXCEPT ![SrcRank] = Some(line)]
            /\ UNCHANGED <<pc, terminate_runs, context_tokens,
                           context_length, output>>
       ELSE IF line = <<"stop">>
       THEN /\ terminate_runs' = [terminate_runs EXCEPT ![SrcRank] = 1]
            /\ raw_text' = [raw_text EXCEPT ![SrcRank] = Some(line)]
            /\ pc' = [pc EXCEPT ![SrcRank] = "bcast_flag"]
            /\ UNCHANGED <<context_tokens, context_length, output>>
       ELSE LET text == PromptText(line)
                tokens == PromptTokens(text)
            IN /\ raw_text' = [raw_text EXCEPT ![SrcRank] = Some(text)]
               /\ output' = Append(output, [write |-> "prompt", text |-> text])
               /\ context_tokens' = [context_tokens EXCEPT ![SrcRank] = Some(tokens)]
               /\ context_length' = [context_length EXCEPT ![SrcRank] =
                                        Some(Len(tokens))]
               /\ pc' = [pc EXCEPT ![SrcRank] =
                            IF FitsWindow(tokens) THEN "bcast_flag" ELSE "read_context"]
               /\ UNCHANGED terminate_runs
    /\ UNCHANGED <<args, chan, barrier, issued, gs, ss, forwards, lt, sg, prep>>

\* Lines 64-67 with the broadcast of the length left out.
AfterFlagSkipLength(flag) == IF flag = 1 THEN "returned" ELSE "bcast_tokens"

\* Lines 64-67 without the return of line 65.
AfterFlagNoReturn(flag) == "bcast_len"

\* Lines 64-67: where read_context goes on after the flag: on flag 1 it
\* returns, and generate_samples with it (line 242).
AfterFlag(flag) == IF flag = 1 THEN "returned" ELSE "bcast_len"

\* Lines 59-65: broadcast of the terminate flag; on flag 1 read_context
\* returns (1, None, None, None) and generate_samples returns (line 242).
BroadcastFlag(r) ==
    /\ pc[r] = "bcast_flag"
    /\ r # SrcRank => chan[r] # <<>>
    /\ issued' = [issued EXCEPT ![r] = Append(@, "flag")]
    /\ chan' = Broadcast(r, <<terminate_runs[r]>>)
    /\ IF ~BroadcastOk(r, <<terminate_runs[r]>>)
       THEN /\ pc' = [pc EXCEPT ![r] = "sync_error"]
            /\ UNCHANGED <<terminate_runs, raw_text, context_tokens, context_length>>
       ELSE LET flag == Received(r, <<terminate_runs[r]>>)[1]
            IN /\ terminate_runs' = [terminate_runs EXCEPT ![r] = flag]
               /\ IF flag = 1
                  THEN /\ pc' = [pc EXCEPT ![r] = AfterFlag(flag)]
                       /\ raw_text' = [raw_text EXCEPT ![r] = None]
                       /\ context_tokens' = [context_tokens EXCEPT ![r] = None]
                       /\ context_length' = [context_length EXCEPT ![r] = None]
                  ELSE /\ pc' = [pc EXCEPT ![r] = AfterFlag(flag)]
                       /\ UNCHANGED <<raw_text, context_tokens, context_length>>
    /\ UNCHANGED <<args, barrier, output, gs, ss, forwards, lt, sg, prep>>

\* Lines 67-71: broadcast of the context length.
BroadcastLength(r) ==
    /\ pc[r] = "bcast_len"
    /\ r # SrcRank => chan[r] # <<>>
    /\ issued' = [issued EXCEPT ![r] = Append(@, "length")]
    /\ chan' = Broadcast(r, <<Val(context_length[r])>>)
    /\ IF ~BroadcastOk(r, <<Val(context_length[r])>>)
       THEN /\ pc' = [pc EXCEPT ![r] = "sync_error"]
            /\ UNCHANGED context_length
       ELSE /\ context_length' = [context_length EXCEPT ![r] =
                                    Some(Received(r, <<Val(context_length[r])>>)[1])]
            /\ pc' = [pc EXCEPT ![r] = "bcast_tokens"]
    /\ UNCHANGED <<args, terminate_runs, raw_text, context_tokens, barrier,
                   output, gs, ss, forwards, lt, sg, prep>>

\* Lines 72-75 with a receiving buffer one entry longer.
TokensTensorOneMore(r) ==
    IF r = SrcRank THEN Val(context_tokens[r])
    ELSE [i \in 1..(Val(context_length[r]) + 1) |-> 0]

\* Lines 72-75: the tensor each rank brings to the broadcast of the tokens.
TokensTensor(r) ==
    IF r = SrcRank THEN Val(context_tokens[r])
    ELSE [i \in 1..Val(context_length[r]) |-> 0]

\* Lines 72-80: broadcast of the context tokens, and the return.
BroadcastTokens(r) ==
    /\ pc[r] = "bcast_tokens"
    /\ r # SrcRank => chan[r] # <<>>
    /\ issued' = [issued EXCEPT ![r] = Append(@, "tokens")]
    /\ chan' = Broadcast(r, TokensTensor(r))
    /\ IF ~BroadcastOk(r, TokensTensor(r))
       THEN /\ pc' = [pc EXCEPT ![r] = "sync_error"]
            /\ UNCHANGED <<context_tokens, raw_text>>
       ELSE LET tensor == Received(r, TokensTensor(r))
            IN /\ context_tokens' = [context_tokens EXCEPT ![r] = Some(tensor)]
               /\ raw_text' = [raw_text EXCEPT ![r] =
                                 IF r # SrcRank THEN Some(DecodeIds(tensor)) ELSE @]
               /\ pc' = [pc EXCEPT ![r] = "generate"]
    /\ UNCHANGED <<args, terminate_runs, context_length, barrier, output, gs,
                   ss, forwards, lt, sg, prep>>

\* ------------------------------------------------------------------------
\* The model (external collaborator) and the sampling of a token
\* ------------------------------------------------------------------------
VocabMax == 20         \* token ids are 0..VocabMax
Vocab == 0..VocabMax

\* Tokens the model may favour at a step.
Peaks == {get_command("eos"), get_command("eop"), 10, 20}

\* next_token_logits of a forward call: a row over the vocabulary that
\* favours one token. The raw logits are multiples of the temperature, so
\* that the division of line 207 is exact.
ModelLogits ==
    {[i \in Vocab |-> IF i = t THEN args.temperature * MaxLogit ELSE 0] : t \in Peaks}

\* next_token_logits /= args.temperature
Scaled(logits) ==
    [i \in DOMAIN logits |->
        IF logits[i] = NegInf THEN NegInf ELSE logits[i] \div args.temperature]

\* torch.multinomial(F.softmax(logits)): any token of probability > 0.
Multinomial(logits) == {i \in DOMAIN logits : Weight(logits[i]) > 0}

\* Lines 207-210: the outcomes of sampling on the raw row `logits`: a token,
\* or the error raised by top_k_logits. No line tests the temperature. With
\* temperature 0 the division of line 207 raises nothing: it fills the row
\* with inf and nan, the softmax of line 209 is nan, and torch.multinomial
\* (line 210) raises RuntimeError. With a negative temperature the division
\* turns the order of the logits around and a token is sampled.
SampleOutcomes(logits) ==
    IF args.temperature = 0
    THEN {[raised |-> "RuntimeError", prev |-> 0]}
    ELSE UNION {IF o.raised # "none"
                THEN {[raised |-> o.raised, prev |-> 0]}
                ELSE {[raised |-> "none", prev |-> t] : t \in Multinomial(o.logits)} :
                o \in top_k_logits(Scaled(logits), args.top_k, args.top_p)}

\* A model call as the model sees it; its mems are named by the number of
\* the call of this round that returned them (0: the empty list).
Forward(r, tokens, position_ids, attention_mask, mems) ==
    Append(forwards[r],
           [tokens |-> tokens, position_ids |-> position_ids,
            attention_mask |-> attention_mask, mems |-> mems])

\* ------------------------------------------------------------------------
\* get_batch (inference_glm.py:83-101)
\* ------------------------------------------------------------------------
\* Position ids of a context of n tokens in block mode: 0..n-1, paired
\* with block position 0 unless args.no_block_position.
GetBatchPositionIds(n) ==
    IF ~args.no_block_position
    THEN [i \in 1..n |-> <<i - 1, 0>>]
    ELSE [i \in 1..n |-> i - 1]

\* The attention mask of get_batch: ones of shape (1, 1, n, n).
OnesMask(n) == [kind |-> "ones", size |-> n]

\* ------------------------------------------------------------------------
\* generate_samples (inference_glm.py:230-277)
\* ------------------------------------------------------------------------
\* (context_tokens_tensor == token).nonzero(as_tuple=True)[0].tolist():
\* the 0-based positions of `token`, ascending.
RECURSIVE PositionsOf(_, _, _)
PositionsOf(tokens, token, from) ==
    IF from > Len(tokens) THEN <<>>
    ELSE (IF tokens[from] = token THEN <<from - 1>> ELSE <<>>)
         \o PositionsOf(tokens, token, from + 1)

\* list.sort(): ascending.
RECURSIVE SortAsc(_)
SortAsc(list) ==
    IF Len(list) = 0 THEN <<>>
    ELSE LET i == CHOOSE j \in 1..Len(list) : \A k \in 1..Len(list) : list[j] <= list[k]
         IN <<list[i]>> \o SortAsc(SubSeq(list, 1, i - 1) \o SubSeq(list, i + 1, Len(list)))

\* Lines 247-248: the designated mask tokens.
MaskTokens ==
    IF args.task_mask
    THEN <<get_command("MASK"), get_command("sMASK"), get_command("gMASK")>>
    ELSE <<get_command("MASK")>>

\* Lines 250-252: the positions of each mask token in turn, before sorting.
RECURSIVE CollectMaskPositions(_, _)
CollectMaskPositions(tokens, k) ==
    IF k > Len(MaskTokens) THEN <<>>
    ELSE PositionsOf(tokens, MaskTokens[k], 1) \o CollectMaskPositions(tokens, k + 1)

\* Lines 250-252 without the sort of line 253.
MaskPositionsUnsorted(tokens) == CollectMaskPositions(tokens, 1)

\* Lines 250-253: mask_positions.
MaskPositions(tokens) == SortAsc(CollectMaskPositions(tokens, 1))

\* Lines 254-256: every mask position shifts the position ids behind it by
\* out_seq_length.
RECURSIVE ShiftPositionIds(_, _, _)
ShiftPositionIds(position_ids, mask_positions, k) ==
    IF k > Len(mask_positions) THEN position_ids
    ELSE ShiftPositionIds(
            [i \in 1..Len(position_ids) |->
                IF i - 1 >= mask_positions[k] + 1
                THEN position_ids[i] + args.out_seq_length
                ELSE position_ids[i]],
            mask_positions, k + 1)

\* Lines 246-256 without the loop of lines 254-256.
EncodePositionIdsNoShift(tokens) == GetBatchPositionIds(Len(tokens))

\* Lines 246-256: position ids of the encoding pass.
EncodePositionIds(tokens) ==
    IF args.no_block_position
    THEN ShiftPositionIds(GetBatchPositionIds(Len(tokens)), MaskPositions(tokens), 1)
    ELSE GetBatchPositionIds(Len(tokens))

\* Lines 244-257 (block mode): the encoding pass over the context. The
\* forward pass of a model-parallel model is a collective over the group:
\* the ranks of the group run it together.
Encode ==
    /\ args.block_lm
    /\ Group # {}
    /\ \A r \in Group : pc[r] = "generate"
    /\ forwards' = [r \in Ranks |->
                      IF r \in Group
                      THEN Forward(r, Val(context_tokens[r]),
                                   EncodePositionIds(Val(context_tokens[r])),
                                   OnesMask(Len(Val(context_tokens[r]))), 0)
                      ELSE forwards[r]]
    /\ gs' = [r \in Ranks |->
                IF r \in Group
                THEN [tokens |-> Val(context_tokens[r]),
                      position_ids |-> EncodePositionIds(Val(context_tokens[r])),
                      mask_positions |-> MaskPositions(Val(context_tokens[r])),
                      next |-> 1,
                      mems |-> Len(forwards[r]) + 1,
                      end_tokens |-> {get_command("eop"), args.eod_token},
                      called |-> <<>>, spans |-> <<>>,
                      span_position_ids |-> <<>>]
                ELSE gs[r]]
    /\ pc' = [r \in Ranks |-> IF r \in Group THEN "mask_loop" ELSE pc[r]]
    /\ UNCHANGED <<args, terminate_runs, raw_text, context_tokens,
                   context_length, chan, barrier, issued, output, ss, lt, sg, prep>>

\* Line 266 (no block mode): the call of sample_sequence on the context.
CallSampleSequence(r) ==
    /\ ~args.block_lm
    /\ pc[r] = "generate"
    /\ ss' = [ss EXCEPT ![r] =
                [NoFrame EXCEPT !.caller = "generate_samples",
                                !.context_tokens = Val(context_tokens[r]),
                                !.context_length = Val(context_length[r]),
                                !.call = 1]]
    /\ pc' = [pc EXCEPT ![r] = "sample_entry"]
    /\ UNCHANGED <<args, terminate_runs, raw_text, context_tokens,
                   context_length, chan, barrier, issued, output, gs,
                   forwards, lt, sg, prep>>

\* Lines 259-262 with the position after the mask.
SpanPositionAfterMask(position_ids, mask_position) ==
    IF args.no_block_position
    THEN position_ids[mask_position + 1] + 1
    ELSE mask_position + 1

\* Line 262 taken in both position modes.
SpanPositionUnshifted(position_ids, mask_position) == mask_position

\* Lines 259-262: the position handed to sample_sequence for a mask position.
SpanPosition(position_ids, mask_position) ==
    IF args.no_block_position
    THEN position_ids[mask_position + 1]
    ELSE mask_position

\* Lines 258-264: the next mask position, if any, is handed to
\* sample_sequence; after the last one (lines 267-275) rank 0 writes the
\* decoded tokens to the output.
MaskLoop(r) ==
    /\ pc[r] = "mask_loop"
    /\ IF gs[r].next <= Len(gs[r].mask_positions)
       THEN /\ ss' = [ss EXCEPT ![r] =
                        [NoFrame EXCEPT
                           !.caller = "generate_samples",
                           !.context_tokens = gs[r].tokens,
                           !.context_length =
                               SpanPosition(gs[r].position_ids,
                                            gs[r].mask_positions[gs[r].next]),
                           !.arg_mems = Some(gs[r].mems),
                           !.arg_end_tokens = Some(gs[r].end_tokens),
                           !.call = gs[r].next]]
            /\ gs' = [gs EXCEPT ![r].called =
                                   Append(@, gs[r].mask_positions[gs[r].next])]
            /\ pc' = [pc EXCEPT ![r] = "sample_entry"]
            /\ UNCHANGED output
       ELSE /\ output' = IF r = SrcRank
                         THEN Append(output, [write |-> "sample",
                                              text |-> DecodeIds(gs[r].tokens)])
                         ELSE output
            /\ pc' = [pc EXCEPT ![r] = "end_barrier"]
            /\ UNCHANGED <<ss, gs>>
    /\ UNCHANGED <<args, terminate_runs, raw_text, context_tokens,
                   context_length, chan, barrier, issued, forwards, lt, sg, prep>>

\* ------------------------------------------------------------------------
\* sample_sequence (inference_glm.py:132-227)
\* ------------------------------------------------------------------------
\* The call starting from the empty list whatever the caller hands over.
MemsOfCallEmpty(arg_mems) == 0

\* Lines 139-140 and the parameter mems of line 132: the caller's mems, the
\* empty list (0) when none are handed over.
MemsOfCall(arg_mems) == IF arg_mems = None THEN 0 ELSE Val(arg_mems)

\* Line 143: the beam search branch is taken.
BeamSearch == args.num_beams > 1

\* Lines 133-153. Without block_lm the call of get_batch (line 134) raises
\* NotImplementedError (line 99), so the loop below runs in block mode only.
\* With num_beams > 1 line 144 looks up BeamSearchScorer, a name that the
\* module neither defines nor imports: NameError, with beam_scorer,
\* beam_scores (line 152) and last_beam_num (line 153) not yet assigned.
SampleEntry(r) ==
    /\ pc[r] = "sample_entry"
    /\ IF ~args.block_lm
       THEN /\ pc' = [pc EXCEPT ![r] = "raised"]
            /\ ss' = [ss EXCEPT ![r].raised = "NotImplementedError"]
       ELSE /\ ss' = [ss EXCEPT
                        ![r].tokens = <<get_command("sop")>>,
                        ![r].counter = 0,
                        ![r].mems = MemsOfCall(ss[r].arg_mems),
                        ![r].end_tokens =
                            IF ss[r].arg_end_tokens = None THEN {args.eod_token}
                            ELSE Val(ss[r].arg_end_tokens),
                        ![r].raised =
                            IF BeamSearch THEN "NameError" ELSE @,
                        ![r].last_beam_num =
                            IF BeamSearch THEN @ ELSE Some(1)]
            /\ pc' = [pc EXCEPT ![r] = IF BeamSearch THEN "raised" ELSE "sample"]
    /\ UNCHANGED <<args, terminate_runs, raw_text, context_tokens,
                   context_length, chan, barrier, issued, output, gs, forwards, lt, sg, prep>>

\* Lines 158-165 with the block position counted from 0.
StepPositionIdsFromZero(context_length_, counter) ==
    IF args.no_block_position
    THEN context_length_ + counter
    ELSE <<context_length_, counter>>

\* Lines 158-165: position ids and attention mask of a generation step.
StepPositionIds(context_length_, counter) ==
    IF args.no_block_position
    THEN context_length_ + counter
    ELSE <<context_length_, counter + 1>>

ZerosMask == [kind |-> "zeros", size |-> 1]

\* Lines 211-216 with the sampled token appended before the test of line 212.
AfterSampleAppendFirst(f, prev) ==
    [f EXCEPT !.prev = Some(prev),
              !.tokens = Append(@, prev),
              !.counter = IF prev \in f.end_tokens THEN @ ELSE @ + 1]

\* Lines 210-216: an end token stops the loop and is dropped; any other
\* token is appended and the step counted.
AfterSample(f, prev) ==
    IF prev \in f.end_tokens THEN [f EXCEPT !.prev = Some(prev)]
    ELSE [f EXCEPT !.prev = Some(prev), !.tokens = Append(@, prev), !.counter = @ + 1]

\* The test of line 154 with <= in place of <.
LoopGoesOnLE(counter) == counter <= args.out_seq_length

\* Line 154: while counter < args.out_seq_length
LoopGoesOn(counter) == counter < args.out_seq_length

\* The loop is left by the break of line 213.
IsEnd(f) == f.prev # None /\ Val(f.prev) \in f.end_tokens

\* Lines 154-216: one turn of the loop: the forward call on the last token,
\* the sampling, and the test for an end token. The forward call is a
\* collective of the group, and the ranks of a group seed their random
\* generators alike (set_random_seed, line 290): they sample the same token.
SampleStep ==
    /\ Group # {}
    /\ \A r \in Group : pc[r] = "sample" /\ LoopGoesOn(ss[r].counter)
    /\ forwards' = [r \in Ranks |->
                      IF r \in Group
                      THEN Forward(r, <<ss[r].tokens[Len(ss[r].tokens)]>>,
                                   StepPositionIds(ss[r].context_length, ss[r].counter),
                                   ZerosMask, ss[r].mems)
                      ELSE forwards[r]]
    /\ \E logits \in ModelLogits : \E o \in SampleOutcomes(logits) :
          IF o.raised # "none"
          THEN /\ pc' = [r \in Ranks |-> IF r \in Group THEN "raised" ELSE pc[r]]
               /\ ss' = [r \in Ranks |->
                           IF r \in Group
                           THEN [ss[r] EXCEPT !.raised = o.raised,
                                              !.mems = Len(forwards[r]) + 1]
                           ELSE ss[r]]
          ELSE /\ ss' = [r \in Ranks |->
                           IF r \in Group
                           THEN [AfterSample(ss[r], o.prev) EXCEPT
                                    !.mems = Len(forwards[r]) + 1,
                                    !.position_ids =
                                        Append(@, StepPositionIds(ss[r].context_length,
                                                                  ss[r].counter))]
                           ELSE ss[r]]
               /\ pc' = [r \in Ranks |->
                           IF r \in Group /\ IsEnd(ss'[r]) THEN "sample_return"
                           ELSE pc[r]]
    /\ UNCHANGED <<args, terminate_runs, raw_text, context_tokens,
                   context_length, chan, barrier, issued, output, gs, lt, sg, prep>>

\* Line 227 returning the generated tokens alone.
ReturnedTokensOnly(f) == f.tokens

\* Line 227: torch.cat((context_tokens, tokens), dim=1)
Returned(f) == f.context_tokens \o f.tokens

\* Line 154 false, or the break of line 213 taken: line 227, and the
\* assignment of line 263 in the caller.
SampleReturn(r) ==
    /\ \/ pc[r] = "sample_return"
       \/ pc[r] = "sample" /\ ~LoopGoesOn(ss[r].counter)
    /\ IF ss[r].caller = "generate_samples"
       THEN /\ gs' = [gs EXCEPT ![r].tokens = Returned(ss[r]),
                                ![r].mems = ss[r].mems,
                                ![r].next = @ + 1,
                                ![r].spans = Append(@, Tail(ss[r].tokens)),
                                ![r].span_position_ids =
                                    Append(@, ss[r].position_ids)]
            /\ ss' = [ss EXCEPT ![r] = NoFrame]
            /\ pc' = [pc EXCEPT ![r] = "mask_loop"]
       ELSE /\ ss' = [ss EXCEPT ![r].result = Some(Returned(ss[r]))]
            /\ pc' = [pc EXCEPT ![r] = "done"]
            /\ UNCHANGED gs
    /\ UNCHANGED <<args, terminate_runs, raw_text, context_tokens,
                   context_length, chan, barrier, issued, output, forwards, lt, sg, prep>>

\* ------------------------------------------------------------------------
\* The session: every rank runs generate_samples
\* ------------------------------------------------------------------------
Next ==
    \/ \E r \in Ranks : EnterBarrier(r)
    \/ \E r \in Ranks : LeaveBarrier(r)
    \/ \E line \in Prompts : ReadPrompt(line)
    \/ \E r \in Ranks : BroadcastFlag(r)
    \/ \E r \in Ranks : BroadcastLength(r)
    \/ \E r \in Ranks : BroadcastTokens(r)
    \/ Encode
    \/ \E r \in Ranks : CallSampleSequence(r)
    \/ \E r \in Ranks : MaskLoop(r)
    \/ \E r \in Ranks : SampleEntry(r)
    \/ SampleStep
    \/ \E r \in Ranks : SampleReturn(r)

Spec == Init /\ [][Next]_vars

\* ------------------------------------------------------------------------
\* sample_sequence called on its own, by one process
\* ------------------------------------------------------------------------
MaxBeams == 2  \* args.num_beams ranges over 1..MaxBeams in direct calls

DirectArgs ==
    [block_lm : BOOLEAN, task_mask : {FALSE}, no_block_position : BOOLEAN,
     num_beams : 1..MaxBeams, out_seq_length : 0..MaxOutSeq,
     max_sequence_length : {MaxSeqLength}, temperature : {-1, 0, 1},
     top_k : {1}, top_p : {<<0, 1>>},
     eod_token : {get_command("eos")}]

DirectContexts == {<<5, 7, 2>>, <<get_command("ENC"), 10, get_command("MASK")>>}

DirectEndTokens ==
    {None, Some({0}), Some({get_command("eop"), get_command("eos")})}

InitSample ==
    /\ args \in DirectArgs
    /\ pc = [r \in Ranks |-> IF r = SrcRank THEN "sample_entry" ELSE "idle"]
    /\ terminate_runs = [r \in Ranks |-> 0]
    /\ raw_text = [r \in Ranks |-> None]
    /\ context_tokens = [r \in Ranks |-> None]
    /\ context_length = [r \in Ranks |-> None]
    /\ chan = [r \in Ranks |-> <<>>]
    /\ barrier = [waiting |-> {}, released |-> {}]
    /\ issued = [r \in Ranks |-> <<>>]
    /\ output = <<>>
    /\ gs = [r \in Ranks |-> NoLocals]
    /\ \E context \in DirectContexts, position \in 0..2, end_tokens \in DirectEndTokens :
          ss = [r \in Ranks |->
                  IF r = SrcRank
                  THEN [NoFrame EXCEPT !.caller = "test",
                                       !.context_tokens = context,
                                       !.context_length = position,
                                       !.arg_end_tokens = end_tokens,
                                       !.call = 1]
                  ELSE NoFrame]
    /\ forwards = [r \in Ranks |-> <<>>]
    /\ lt = NoLogitsCall
    /\ sg = NoStream
    /\ prep = NoPrepare

NextSample ==
    \/ \E r \in Ranks : SampleEntry(r)
    \/ SampleStep
    \/ \E r \in Ranks : SampleReturn(r)

SpecSample == InitSample /\ [][NextSample]_vars

\* ------------------------------------------------------------------------
\* top_k_logits called on its own
\* ------------------------------------------------------------------------
LogitRows ==
    UNION {[0..(n - 1) -> 0..MaxLogit] : n \in 1..MaxVocab}

TopPs == {<<n, TopPDen>> : n \in 0..(TopPDen - 1)}

InitLogits ==
    /\ args \in {[a EXCEPT !.temperature = t] :
                    a \in {b \in SessionArgs :
                              b.block_lm /\ b.task_mask /\ b.no_block_position},
                    t \in 1..MaxTemperature}
    /\ pc = [r \in Ranks |-> "idle"]
    /\ terminate_runs = [r \in Ranks |-> 0]
    /\ raw_text = [r \in Ranks |-> None]
    /\ context_tokens = [r \in Ranks |-> None]
    /\ context_length = [r \in Ranks |-> None]
    /\ chan = [r \in Ranks |-> <<>>]
    /\ barrier = [waiting |-> {}, released |-> {}]
    /\ issued = [r \in Ranks |-> <<>>]
    /\ output = <<>>
    /\ gs = [r \in Ranks |-> NoLocals]
    /\ ss = [r \in Ranks |-> NoFrame]
    /\ forwards = [r \in Ranks |-> <<>>]
    /\ sg = NoStream
    /\ prep = NoPrepare
    /\ \E logits \in LogitRows, top_k \in 0..MaxTopK, top_p \in TopPs :
          lt = [NoLogitsCall EXCEPT !.pc = "call", !.logits = logits,
                                    !.top_k = top_k, !.top_p = top_p]

\* The call top_k_logits(logits, top_k, top_p).
CallTopKLogits ==
    /\ lt.pc = "call"
    /\ \E o \in top_k_logits(lt.logits, lt.top_k, lt.top_p) :
          lt' = [lt EXCEPT !.pc = "done", !.out = o]
    /\ UNCHANGED <<args, pc, terminate_runs, raw_text, context_tokens,
                   context_length, chan, barrier, issued, output, gs, ss, forwards, sg, prep>>

\* Lines 207-208: the logits transform of a decoding step, the division by
\* the temperature and the filter. Rows are taken that the temperature
\* divides, so that the division is exact.
LogitsTransform(logits) ==
    top_k_logits(Scaled(logits), lt.top_k, lt.top_p)

\* The transform applied to the row, and then once more to what it gave.
ApplyLogitsTransform ==
    /\ \/ /\ lt.pc = "call"
          /\ \A i \in DOMAIN lt.logits : lt.logits[i] % args.temperature = 0
          /\ \E o \in LogitsTransform(lt.logits) :
                lt' = [lt EXCEPT !.pc = "once", !.out = o]
       \/ /\ lt.pc = "once"
          /\ lt.out.raised = "none"
          /\ \A i \in DOMAIN lt.out.logits :
                lt.out.logits[i] # NegInf => lt.out.logits[i] % args.temperature = 0
          /\ \E o \in LogitsTransform(lt.out.logits) :
                lt' = [lt EXCEPT !.pc = "twice", !.out2 = o]
    /\ UNCHANGED <<args, pc, terminate_runs, raw_text, context_tokens,
                   context_length, chan, barrier, issued, output, gs, ss, forwards, sg, prep>>

NextLogits ==
    \/ CallTopKLogits
    \/ ApplyLogitsTransform

SpecLogits == InitLogits /\ [][NextLogits]_vars

\* ------------------------------------------------------------------------
\* ChatModel.stream_generate (examples/chatglm/chat_model.py), batch size 1.
\* Two runs of the same call are carried side by side: same input_ids, same
\* generation_config, and a model that answers equal input_ids with equal
\* logits.  The vocabulary is cut down to three token ids, one of them the
\* id that InvalidScoreLogitsProcessor writes to.  A logit is 0 or -inf and a
\* row of logits has at least one finite entry; nan is not represented.
\* ------------------------------------------------------------------------
MaxStreamLength == 5  \* generation_config.max_length ranges up to it

InvalidScoreToken == 20005

InvalidScoreValue == 50000

StreamVocab == {5, InvalidScoreToken, 20006}

\* input_ids of the call: a prompt token, gMASK (150001) and bos (150004),
\* so that prepare_inputs_for_generation finds its mask token.
StreamContext == <<5, 150001, 150004>>

StreamRows ==
    {l \in [StreamVocab -> {NegInf, 0}] : \E t \in StreamVocab : l[t] # NegInf}

\* InvalidScoreLogitsProcessor.__call__: a row with an infinite entry is
\* zeroed and token 20005 gets 5e4.
InvalidScoreLogitsProcessor(scores) ==
    IF \E t \in DOMAIN scores : scores[t] = NegInf
    THEN [t \in DOMAIN scores |->
             IF t = InvalidScoreToken THEN InvalidScoreValue ELSE 0]
    ELSE scores

\* logits_processor(input_ids, next_token_logits): the list the caller
\* handed over, empty or the one stream_chat builds.
ApplyLogitsProcessor(logits) ==
    IF sg.logits_processor = "InvalidScoreLogitsProcessor"
    THEN InvalidScoreLogitsProcessor(logits)
    ELSE logits

\* torch.argmax(probs, dim=-1): softmax is strictly increasing, so the
\* largest probability sits at the largest score; of several maximal
\* entries the first index is returned.
ArgMax(scores) ==
    CHOOSE t \in DOMAIN scores :
        \A u \in DOMAIN scores :
            scores[u] < scores[t] \/ (scores[u] = scores[t] /\ t <= u)

\* torch.multinomial(probs, num_samples=1): any token of probability > 0.
StreamMultinomial(scores) == {t \in DOMAIN scores : scores[t] # NegInf}

NextTokensSampleOnly(scores) == StreamMultinomial(scores)

\* if generation_config.do_sample: multinomial, else: argmax.
NextTokens(scores) ==
    IF sg.do_sample THEN StreamMultinomial(scores) ELSE {ArgMax(scores)}

\* stopping_criteria(input_ids, scores): the max_length criterion that
\* _get_stopping_criteria builds from generation_config.max_length.
StoppingCriteria(input_ids) == Len(input_ids) >= sg.max_length

StreamRuns == 1..2

NewRun ==
    [pc |-> "loop", input_ids |-> StreamContext, unfinished_sequences |-> 1,
     next_token_logits |-> <<>>, next_token_scores |-> <<>>, yielded |-> <<>>]

InitStream ==
    /\ args \in {a \in SessionArgs : a.block_lm /\ a.task_mask /\ a.no_block_position}
    /\ pc = [r \in Ranks |-> "idle"]
    /\ terminate_runs = [r \in Ranks |-> 0]
    /\ raw_text = [r \in Ranks |-> None]
    /\ context_tokens = [r \in Ranks |-> None]
    /\ context_length = [r \in Ranks |-> None]
    /\ chan = [r \in Ranks |-> <<>>]
    /\ barrier = [waiting |-> {}, released |-> {}]
    /\ issued = [r \in Ranks |-> <<>>]
    /\ output = <<>>
    /\ gs = [r \in Ranks |-> NoLocals]
    /\ ss = [r \in Ranks |-> NoFrame]
    /\ forwards = [r \in Ranks |-> <<>>]
    /\ lt = NoLogitsCall
    /\ prep = NoPrepare
    /\ \E do_sample \in BOOLEAN, eos \in {{20006}, {5, 20006}},
          max_length \in (Len(StreamContext) + 1)..MaxStreamLength,
          lp \in {"none", "InvalidScoreLogitsProcessor"} :
           sg = [pc |-> "running", do_sample |-> do_sample, eos_token_id |-> eos,
                 max_length |-> max_length, logits_processor |-> lp,
                 run |-> [i \in StreamRuns |-> NewRun]]

\* One pass of the while loop in run i, the model answering with logits.
StreamLoopBody(run, logits, next_tokens) ==
    LET next_token_scores == ApplyLogitsProcessor(logits)
        input_ids == Append(run.input_ids, next_tokens)
        unfinished_sequences ==
            IF next_tokens \in sg.eos_token_id THEN 0 ELSE run.unfinished_sequences
        break == unfinished_sequences = 0 \/ StoppingCriteria(input_ids)
    IN  [pc |-> IF break THEN "done" ELSE "loop",
         input_ids |-> input_ids,
         unfinished_sequences |-> unfinished_sequences,
         next_token_logits |-> logits,
         next_token_scores |-> next_token_scores,
         yielded |-> IF break THEN run.yielded ELSE Append(run.yielded, input_ids)]

StreamStep ==
    /\ sg.pc = "running"
    /\ \E i \in StreamRuns : sg.run[i].pc = "loop"
    /\ \E logits \in [StreamRuns -> StreamRows] :
          /\ \A i, j \in StreamRuns :
                sg.run[i].input_ids = sg.run[j].input_ids => logits[i] = logits[j]
          /\ \E next_tokens \in [StreamRuns -> StreamVocab] :
                /\ \A i \in StreamRuns :
                      next_tokens[i] \in NextTokens(ApplyLogitsProcessor(logits[i]))
                /\ sg' = [sg EXCEPT !.run = [i \in StreamRuns |->
                             IF sg.run[i].pc = "loop"
                             THEN StreamLoopBody(sg.run[i], logits[i], next_tokens[i])
                             ELSE sg.run[i]]]
    /\ UNCHANGED <<args, pc, terminate_runs, raw_text, context_tokens,
                   context_length, chan, barrier, issued, output, gs, ss,
                   forwards, lt, prep>>

NextStream == StreamStep

SpecStream == InitStream /\ [][NextStream]_vars

\* ------------------------------------------------------------------------
\* ChatModel.prepare_inputs_for_generation and get_masks_and_position_ids
\* (examples/chatglm/chat_model.py), batch size 1.  Indices are 0-based as
\* in the code; a sequence s holds index i at s[i + 1].
\* ------------------------------------------------------------------------
MaxChatLength == 4  \* input_ids of a call have 1..MaxChatLength tokens

MASK == 150000

gMASK == 150001

\* Token ids of the inputs: two words, the two mask tokens and bos.
ChatTokens == {5, 7, MASK, gMASK, 150004}

Has(seq, token) == \E i \in 1..Len(seq) : seq[i] = token

\* list.index: the first index of the token (ValueError when it is absent).
Index(seq, token) ==
    (CHOOSE i \in 1..Len(seq) :
        seq[i] = token /\ \A j \in 1..(i - 1) : seq[j] # token) - 1

\* Lines 45-46 alone: the lower triangle.
AttentionMaskCausal(seq_length, context_length_) ==
    [i \in 1..seq_length |->
        [j \in 1..seq_length |-> IF j <= i THEN 1 ELSE 0]]

\* Lines 45-49: ones, tril_(), then the columns before context_length set
\* to 1 in every row.
AttentionMask(seq_length, context_length_) ==
    [i \in 1..seq_length |->
        [j \in 1..seq_length |->
            IF j <= i \/ j - 1 < context_length_ THEN 1 ELSE 0]]

\* Lines 56-58 writing mask_position to the positions before context_length.
SubstitutedBefore(seq_length, context_length_, mask_position, gmask) ==
    [i \in 1..seq_length |->
        IF ~gmask /\ i - 1 < context_length_ THEN mask_position ELSE i - 1]

\* Lines 55-58: arange(seq_length), and unless gmask the positions from
\* context_length on set to mask_position.
Substituted(seq_length, context_length_, mask_position, gmask) ==
    [i \in 1..seq_length |->
        IF ~gmask /\ i - 1 >= context_length_ THEN mask_position ELSE i - 1]

\* Lines 59-62: zeros(context_length) followed by 1, 2, ...
BlockPositionIds(seq_length, context_length_) ==
    [i \in 1..seq_length |->
        IF i - 1 < context_length_ THEN 0 ELSE i - context_length_]

\* Lines 66-69: arange(seq_length); position_ids[context_length:] slices the
\* batch dimension of the (1, seq_length) tensor, so the assignment writes
\* the whole row when context_length is 0 and nothing otherwise.
PositionIds1D(seq_length, context_length_, mask_position, gmask) ==
    [i \in 1..seq_length |->
        IF ~gmask /\ context_length_ = 0 THEN mask_position ELSE i - 1]

\* Lines 42-71.
get_masks_and_position_ids(input_ids, mask_position, gmask) ==
    IF ~Has(input_ids, prep.bos_token_id)
    THEN [NoModelInputs EXCEPT !.raised = "ValueError"]
    ELSE LET seq_length == Len(input_ids)
             context_length_ == Index(input_ids, prep.bos_token_id)
             position_ids ==
                 Substituted(seq_length, context_length_, mask_position, gmask)
             block_position_ids == BlockPositionIds(seq_length, context_length_)
         IN  [raised |-> "none",
              input_ids |-> input_ids,
              attention_mask |-> Some(AttentionMask(seq_length, context_length_)),
              position_ids |->
                  IF prep.position_encoding_2d
                  THEN [i \in 1..seq_length |->
                           <<position_ids[i], block_position_ids[i]>>]
                  ELSE PositionIds1D(seq_length, context_length_,
                                     mask_position, gmask)]

\* Lines 73-120; past stands for "past is not None or past_key_values is
\* not None".
prepare_inputs_for_generation(input_ids, past) ==
    LET seq_length == Len(input_ids)
        mask_token == IF Has(input_ids, MASK) THEN MASK ELSE gMASK
        use_gmask == ~Has(input_ids, MASK)
    IN  IF ~Has(input_ids, mask_token)
        THEN [NoModelInputs EXCEPT !.raised = "ValueError"]
        ELSE LET mask_position == Index(input_ids, mask_token)
             IN  IF past
                 THEN IF ~Has(input_ids, prep.bos_token_id)
                      THEN [NoModelInputs EXCEPT !.raised = "ValueError"]
                      ELSE LET context_length_ == Index(input_ids, prep.bos_token_id)
                           IN  [raised |-> "none",
                                input_ids |-> <<input_ids[seq_length]>>,
                                attention_mask |-> None,
                                position_ids |->
                                    IF prep.position_encoding_2d
                                    THEN <<<<mask_position,
                                             seq_length - context_length_>>>>
                                    ELSE <<mask_position>>]
                 ELSE get_masks_and_position_ids(input_ids, mask_position, use_gmask)

ChatInputs == UNION {[1..n -> ChatTokens] : n \in 1..MaxChatLength}

InitChat ==
    /\ args \in {a \in SessionArgs : a.block_lm /\ a.task_mask /\ a.no_block_position}
    /\ pc = [r \in Ranks |-> "idle"]
    /\ terminate_runs = [r \in Ranks |-> 0]
    /\ raw_text = [r \in Ranks |-> None]
    /\ context_tokens = [r \in Ranks |-> None]
    /\ context_length = [r \in Ranks |-> None]
    /\ chan = [r \in Ranks |-> <<>>]
    /\ barrier = [waiting |-> {}, released |-> {}]
    /\ issued = [r \in Ranks |-> <<>>]
    /\ output = <<>>
    /\ gs = [r \in Ranks |-> NoLocals]
    /\ ss = [r \in Ranks |-> NoFrame]
    /\ forwards = [r \in Ranks |-> <<>>]
    /\ lt = NoLogitsCall
    /\ sg = NoStream
    /\ \E input_ids \in ChatInputs, past \in BOOLEAN, position_encoding_2d \in BOOLEAN :
          prep = [NoPrepare EXCEPT !.pc = "call",
                                   !.input_ids = input_ids,
                                   !.past = past,
                                   !.position_encoding_2d = position_encoding_2d,
                                   !.bos_token_id = 150004]

PrepareInputs ==
    /\ prep.pc = "call"
    /\ prep' = [prep EXCEPT
                  !.pc = "done",
                  !.model_inputs = prepare_inputs_for_generation(prep.input_ids,
                                                                 prep.past)]
    /\ UNCHANGED <<args, pc, terminate_runs, raw_text, context_tokens,
                   context_length, chan, barrier, issued, output, gs, ss,
                   forwards, lt, sg>>

NextChat == PrepareInputs

SpecChat == InitChat /\ [][NextChat]_vars

\* ------------------------------------------------------------------------
\* Properties of the session (under Spec)
\* ------------------------------------------------------------------------
\* Rank r is past read_context in a round whose prompt was accepted, and has
\* not entered the barrier that closes the round.
InRound(r) ==
    pc[r] \in {"generate", "mask_loop", "sample_entry", "sample",
               "sample_return", "end_barrier", "raised"}

\* C1: in a round with an accepted prompt, a rank that is past read_context,
\* or has made a model call of the round, holds terminate flag 0 and the
\* context length and context tokens of rank 0, its first model call was on
\* those tokens, and no rank fails in a broadcast.
C1_SameContextBeforeForward ==
    \A r \in Ranks :
        /\ pc[r] # "sync_error"
        /\ (InRound(r) \/ forwards[r] # <<>>) =>
              /\ terminate_runs[r] = 0
              /\ terminate_runs[SrcRank] = 0
              /\ context_tokens[r] # None
              /\ context_tokens[r] = context_tokens[SrcRank]
              /\ context_length[r] # None
              /\ context_length[r] = context_length[SrcRank]
              /\ Val(context_length[r]) = Len(Val(context_tokens[r]))
              /\ forwards[r] # <<>> =>
                     forwards[r][1].tokens = Val(context_tokens[SrcRank])

\* C1 witness: a rank other than rank 0 has run the encoding pass on the
\* context rank 0 read.
C1_Witness ==
    \E r \in Ranks \ {SrcRank} :
        /\ pc[r] = "mask_loop"
        /\ Len(forwards[r]) = 1
        /\ context_tokens[SrcRank] # None
        /\ forwards[r][1].tokens = Val(context_tokens[SrcRank])
        /\ Len(Val(context_tokens[SrcRank])) = 5

\* The broadcasts among the collectives rank r issued in this round.
BroadcastsIssued(r) == SelectSeq(issued[r], LAMBDA c : c # "barrier")

\* C2: on every rank the broadcasts of a round are issued in the order
\* flag, length, tokens: what a rank has issued is always a prefix of it.
C2_BroadcastOrder ==
    \A r \in Ranks :
        /\ Len(BroadcastsIssued(r)) <= 3
        /\ BroadcastsIssued(r) =
               SubSeq(<<"flag", "length", "tokens">>, 1, Len(BroadcastsIssued(r)))

\* C2 witness: a receiving rank has issued all three broadcasts.
C2_Witness ==
    \E r \in Ranks \ {SrcRank} : issued[r] = <<"barrier", "flag", "length", "tokens">>

\* C3: after "stop" a rank that holds flag 1 has returned from read_context
\* with (1, None, None, None) and from generate_samples, having issued the
\* flag broadcast alone and no model call in the round; once rank 0 has
\* returned, every other rank has returned or has flag 1 waiting for it.
C3_StopReturnsEverywhere ==
    \A r \in Ranks :
        /\ terminate_runs[r] = 1 =>
              \/ pc[r] = "returned"
              \/ r = SrcRank /\ pc[r] = "bcast_flag"
        /\ pc[r] = "returned" =>
              /\ terminate_runs[r] = 1
              /\ raw_text[r] = None
              /\ context_tokens[r] = None
              /\ context_length[r] = None
              /\ issued[r] = <<"barrier", "flag">>
              /\ forwards[r] = <<>>
        /\ (pc[SrcRank] = "returned" /\ pc[r] # "returned") =>
              /\ pc[r] \in {"barrier_wait", "bcast_flag"}
              /\ chan[r] = << <<1>> >>

\* C3 witness: every rank has returned.
C3_Witness == \A r \in Ranks : pc[r] = "returned"

\* The designated mask-token ids.
DesignatedMaskIds ==
    IF args.task_mask
    THEN {get_command("MASK"), get_command("sMASK"), get_command("gMASK")}
    ELSE {get_command("MASK")}

\* Rank r is in the block-mode part of a round, past the encoding pass.
PastEncode(r) ==
    /\ args.block_lm
    /\ pc[r] \in {"mask_loop", "sample_entry", "sample", "sample_return",
                  "end_barrier", "end_barrier_wait"}

InSampleSequence(r) == pc[r] \in {"sample_entry", "sample", "sample_return"}

\* C7: in block mode mask_positions are the positions of the designated
\* mask ids in the context, ascending; sample_sequence is called for them in
\* that order, once each, a call starting only when all earlier calls have
\* returned; at the end of the round every mask position has had its call.
C7_OneCallPerMaskAscending ==
    \A r \in Ranks :
        PastEncode(r) =>
            LET mp == gs[r].mask_positions
                called == gs[r].called
            IN /\ \A i \in 1..(Len(mp) - 1) : mp[i] < mp[i + 1]
               /\ {mp[i] : i \in 1..Len(mp)} =
                      {j - 1 : j \in {k \in 1..Len(Val(context_tokens[r])) :
                                         Val(context_tokens[r])[k] \in DesignatedMaskIds}}
               /\ Len(called) <= Len(mp)
               /\ called = SubSeq(mp, 1, Len(called))
               /\ IF InSampleSequence(r)
                  THEN /\ Len(gs[r].spans) = Len(called) - 1
                       /\ ss[r].call = Len(called)
                  ELSE Len(gs[r].spans) = Len(called)
               /\ pc[r] \in {"end_barrier", "end_barrier_wait"} => called = mp

\* C7 witness: a round with a gMASK before a MASK has ended with a call for
\* position 1 and then one for position 2.
C7_Witness ==
    \E r \in Ranks :
        /\ args.block_lm
        /\ args.task_mask
        /\ pc[r] = "end_barrier"
        /\ gs[r].called = <<1, 2>>
        /\ Len(gs[r].spans) = 2

\* The context with each span put at the offset of its mask, from the last
\* mask to the first: in place of the mask token, or right after it.
RECURSIVE Spliced(_, _, _, _, _)
Spliced(tokens, mask_positions, spans, k, keep_mask) ==
    IF k = 0 THEN tokens
    ELSE Spliced(SubSeq(tokens, 1, mask_positions[k] + (IF keep_mask THEN 1 ELSE 0))
                     \o spans[k]
                     \o SubSeq(tokens, mask_positions[k] + 2, Len(tokens)),
                 mask_positions, spans, k - 1, keep_mask)

\* The context followed by each span in turn, each after a sop token.
RECURSIVE Appended(_, _, _)
Appended(tokens, spans, k) ==
    IF k = 0 THEN tokens
    ELSE Appended(tokens, spans, k - 1) \o <<get_command("sop")>> \o spans[k]

WithoutSop(tokens) == SelectSeq(tokens, LAMBDA t : t # get_command("sop"))

\* C8 as stated: with several mask positions the tokens of each span sit in
\* the resulting sequence at the offset of their own mask position (the sop
\* markers aside).
C8_SpansSplicedAtMaskOffsets ==
    \A r \in Ranks :
        (args.block_lm /\ pc[r] = "end_barrier" /\ Len(gs[r].mask_positions) >= 2) =>
            \/ WithoutSop(gs[r].tokens) =
                   Spliced(Val(context_tokens[r]), gs[r].mask_positions, gs[r].spans,
                           Len(gs[r].spans), TRUE)
            \/ WithoutSop(gs[r].tokens) =
                   Spliced(Val(context_tokens[r]), gs[r].mask_positions, gs[r].spans,
                           Len(gs[r].spans), FALSE)

\* C8 amended: the spans are appended after the context in the order of
\* their mask positions, each after a sop token, and it is the position ids
\* of a span's model calls that carry the offset of its mask position:
\* (mask position, 1), (mask position, 2), ... or, with no_block_position,
\* the mask's shifted position plus 0, 1, ...
C8_SpansAppendedPositionsAtMask ==
    \A r \in Ranks :
        PastEncode(r) =>
            LET g == gs[r]
            IN /\ g.tokens = Appended(Val(context_tokens[r]), g.spans, Len(g.spans))
               /\ Len(g.span_position_ids) = Len(g.spans)
               /\ \A k \in 1..Len(g.spans) :
                     /\ Len(g.span_position_ids[k]) \in
                            {Len(g.spans[k]), Len(g.spans[k]) + 1}
                     /\ \A i \in 1..Len(g.span_position_ids[k]) :
                           g.span_position_ids[k][i] =
                               IF args.no_block_position
                               THEN g.mask_positions[k]
                                        + args.out_seq_length * (k - 1) + (i - 1)
                               ELSE <<g.mask_positions[k], i>>

\* C8 witness: the round of [ENC, 10, MASK, 20, MASK] has ended with a
\* non-empty span for each of the mask positions 2 and 4.
C8_Witness ==
    \E r \in Ranks :
        /\ args.block_lm
        /\ pc[r] = "end_barrier"
        /\ context_tokens[r] = Some(<<get_command("ENC"), 10, get_command("MASK"),
                                      20, get_command("MASK")>>)
        /\ Len(gs[r].spans) = 2
        /\ gs[r].spans[1] # <<>>
        /\ gs[r].spans[2] # <<>>

\* ------------------------------------------------------------------------
\* Properties of sample_sequence (under SpecSample)
\* ------------------------------------------------------------------------
InLoop(r) == pc[r] \in {"sample", "sample_return", "done"}

\* C4: with num_beams = 1 no token after the sop token is an end token;
\* when an end token is sampled the loop is left at that step and the token
\* is not appended, and what is returned is the context followed by these
\* tokens.
C4_EndTokenNotAppended ==
    \A r \in Ranks :
        InLoop(r) =>
            LET f == ss[r]
            IN /\ \A i \in 2..Len(f.tokens) : f.tokens[i] \notin f.end_tokens
               /\ Len(f.tokens) = f.counter + 1
               /\ IsEnd(f) => pc[r] \in {"sample_return", "done"}
               /\ pc[r] = "done" => f.result = Some(f.context_tokens \o f.tokens)

\* C4 witness: a call that generated two tokens and then sampled an end
\* token has returned.
C4_Witness ==
    /\ pc[SrcRank] = "done"
    /\ IsEnd(ss[SrcRank])
    /\ Len(ss[SrcRank].tokens) = 3

\* C5: the step counter never exceeds out_seq_length, a call makes at most
\* out_seq_length model calls and appends at most out_seq_length tokens, and
\* with the counter at out_seq_length the call can only return.
C5_AtMostOutSeqLengthSteps ==
    \A r \in Ranks :
        InLoop(r) =>
            /\ ss[r].counter <= args.out_seq_length
            /\ Len(forwards[r]) <= args.out_seq_length
            /\ Len(ss[r].tokens) - 1 <= args.out_seq_length
            /\ (pc[r] = "sample" /\ ss[r].counter >= args.out_seq_length) =>
                   (~ENABLED SampleStep /\ ENABLED SampleReturn(r))

\* C5 witness: a call has returned after out_seq_length steps.
C5_Witness ==
    /\ pc[SrcRank] = "done"
    /\ args.out_seq_length = MaxOutSeq
    /\ ss[SrcRank].counter = args.out_seq_length
    /\ Len(forwards[SrcRank]) = args.out_seq_length

\* The call of scenario 1: context [5, 7, 2], end_tokens = [0],
\* out_seq_length = 4.
Scenario1Call ==
    /\ args.out_seq_length = 4
    /\ ss[SrcRank].context_tokens = <<5, 7, 2>>
    /\ ss[SrcRank].arg_end_tokens = Some({0})

\* ... and its first decoding step has sampled token 0.
Scenario1FirstStepZero ==
    /\ Scenario1Call
    /\ Len(forwards[SrcRank]) = 1
    /\ ss[SrcRank].prev = Some(0)

\* C6 as stated: the loop ends at the first step and the result is
\* [5, 7, 2, 0].
C6_ResultEndsWithEndToken ==
    (Scenario1FirstStepZero /\ pc[SrcRank] = "done") =>
        ss[SrcRank].result = Some(<<5, 7, 2, 0>>)

\* C6 amended: the loop ends at its first step with the counter at 0, the
\* end token 0 is not appended, and the result is the context followed by
\* the sop token alone, [5, 7, 2, sop]; without block_lm the call raises
\* NotImplementedError before any decoding step.
C6_ResultIsContextAndSop ==
    /\ Scenario1FirstStepZero =>
          /\ args.block_lm
          /\ pc[SrcRank] \in {"sample_return", "done"}
          /\ ss[SrcRank].counter = 0
          /\ ss[SrcRank].tokens = <<get_command("sop")>>
          /\ pc[SrcRank] = "done" =>
                ss[SrcRank].result = Some(<<5, 7, 2, get_command("sop")>>)
    /\ (Scenario1Call /\ ~args.block_lm) =>
          /\ pc[SrcRank] \in {"sample_entry", "raised"}
          /\ forwards[SrcRank] = <<>>
          /\ pc[SrcRank] = "raised" => ss[SrcRank].raised = "NotImplementedError"

\* C6 witness: the call of scenario 1 has returned after its first step.
C6_Witness == Scenario1FirstStepZero /\ pc[SrcRank] = "done"

\* ------------------------------------------------------------------------
\* Properties of top_k_logits (under SpecLogits)
\* ------------------------------------------------------------------------
\* The entries of a row that are not filtered.
Kept(row) == {i \in DOMAIN row : row[i] # NegInf}

\* The weight of a set of tokens of the row given to the call; its ratio to
\* the weight of all tokens is the set's probability under the softmax of
\* that row.
InWeight(K) == SumOver([i \in DOMAIN lt.logits |-> Weight(lt.logits[i])], K)

Smaller(a, b) == IF a < b THEN a ELSE b

\* A call with top_k > 0 and no top_p has returned or raised.
TopKCallDone == lt.pc = "done" /\ lt.top_k > 0 /\ lt.top_p[1] = 0

\* A call with top_p in (0,1) and no top_k has returned.
TopPCallDone == lt.pc = "done" /\ lt.top_k = 0 /\ lt.top_p[1] > 0

\* The kept token of least probability.
LowestKept(K) == CHOOSE i \in K : \A j \in K : lt.logits[i] <= lt.logits[j]

\* C9 as stated: for every row, ties allowed, and every top_k > 0, exactly
\* min(top_k, vocab_size) entries are left unfiltered.
C9_ExactlyMinTopK ==
    TopKCallDone =>
        /\ lt.out.raised = "none"
        /\ Cardinality(Kept(lt.out.logits)) =
               Smaller(lt.top_k, Cardinality(DOMAIN lt.logits))

\* What line 110 does instead: for 0 < top_k <= vocab_size the entries left
\* unfiltered are those not smaller than the top_k-th largest logit: at
\* least top_k of them, every one larger than every filtered entry, and
\* fewer than top_k entries are larger than the smallest of them (so exactly
\* top_k are left only when no entry ties with the top_k-th largest); values
\* left are unchanged. For top_k > vocab_size torch.topk raises RuntimeError.
TopKKeepsThreshold ==
    TopKCallDone =>
        IF lt.top_k > Cardinality(DOMAIN lt.logits)
        THEN lt.out.raised = "RuntimeError"
        ELSE LET K == Kept(lt.out.logits)
             IN /\ lt.out.raised = "none"
                /\ DOMAIN lt.out.logits = DOMAIN lt.logits
                /\ Cardinality(K) >= lt.top_k
                /\ \A i \in K : lt.out.logits[i] = lt.logits[i]
                /\ \A i \in K : \A j \in DOMAIN lt.logits \ K :
                       lt.logits[i] > lt.logits[j]
                /\ Cardinality({i \in DOMAIN lt.logits :
                                   lt.logits[i] > lt.logits[LowestKept(K)]}) < lt.top_k

\* A row with a tie at the top_k-th place, where more than top_k entries are
\* left.
TopKTieKeepsMore ==
    /\ TopKCallDone
    /\ lt.out.raised = "none"
    /\ lt.top_k = 2
    /\ Cardinality(Kept(lt.out.logits)) = 3

\* C10 as stated: for top_p in (0,1) the kept set has cumulative probability
\* >= top_p, a token of highest probability is kept, and without its
\* lowest-ranked token the kept set's probability is below top_p.
C10_MinimalBelowTopP ==
    TopPCallDone =>
        LET K == Kept(lt.out.logits)
            total == InWeight(DOMAIN lt.logits)
        IN /\ InWeight(K) * lt.top_p[2] >= lt.top_p[1] * total
           /\ \E i \in K : \A j \in DOMAIN lt.logits : lt.logits[i] >= lt.logits[j]
           /\ InWeight(K \ {LowestKept(K)}) * lt.top_p[2] < lt.top_p[1] * total

\* C10 amended: for top_p in (0,1) the kept set is a prefix of the tokens in
\* descending order of probability, its cumulative probability exceeds
\* top_p, a token of highest probability is kept, and without its
\* lowest-ranked token the kept set's probability is at most top_p (it may
\* equal top_p).
C10_MinimalPrefixAboveTopP ==
    TopPCallDone =>
        LET K == Kept(lt.out.logits)
            total == InWeight(DOMAIN lt.logits)
        IN /\ lt.out.raised = "none"
           /\ K # {}
           /\ \A i \in K : lt.out.logits[i] = lt.logits[i]
           /\ \A i \in K : \A j \in DOMAIN lt.logits \ K : lt.logits[i] >= lt.logits[j]
           /\ InWeight(K) * lt.top_p[2] > lt.top_p[1] * total
           /\ \E i \in K : \A j \in DOMAIN lt.logits : lt.logits[i] >= lt.logits[j]
           /\ InWeight(K \ {LowestKept(K)}) * lt.top_p[2] <= lt.top_p[1] * total

\* C10 witness: a kept set of several tokens that, without its lowest-ranked
\* token, has probability exactly top_p.
C10_Witness ==
    /\ TopPCallDone
    /\ Cardinality(Kept(lt.out.logits)) > 1
    /\ Cardinality(Kept(lt.out.logits)) < Cardinality(DOMAIN lt.logits)
    /\ InWeight(Kept(lt.out.logits) \ {LowestKept(Kept(lt.out.logits))}) * lt.top_p[2]
           = lt.top_p[1] * InWeight(DOMAIN lt.logits)

\* C11: with top_k = 0, top_p = 0 and temperature = 1 the logits transform
\* returns the row it was given, and applied to that result returns it again.
C11_TransformIsNoOp ==
    (lt.top_k = 0 /\ lt.top_p[1] = 0 /\ args.temperature = 1) =>
        /\ lt.pc \in {"once", "twice"} =>
              /\ lt.out.raised = "none"
              /\ lt.out.logits = lt.logits
        /\ lt.pc = "twice" =>
              /\ lt.out2.raised = "none"
              /\ lt.out2.logits = lt.logits

\* C11 witness: the transform has been applied twice, with no filter and
\* temperature 1, to a row of several different logits.
C11_Witness ==
    /\ lt.pc = "twice"
    /\ lt.top_k = 0
    /\ lt.top_p[1] = 0
    /\ args.temperature = 1
    /\ \E i, j \in DOMAIN lt.logits : lt.logits[i] < lt.logits[j]

\* ------------------------------------------------------------------------
\* Properties of the prompt loop (under Spec)
\* ------------------------------------------------------------------------
\* C13: the step in which rank 0 reads an empty prompt leaves rank 0 at the
\* prompt with flag 0, broadcasts nothing, writes nothing to the output and
\* makes no model call; and while the empty prompt is the last one read,
\* rank 0 is at the prompt.
C13_EmptyPromptRejected ==
    /\ [](raw_text[SrcRank] = Some(<<>>) =>
             pc[SrcRank] = "read_context" /\ terminate_runs[SrcRank] = 0)
    /\ [][(/\ pc[SrcRank] = "read_context"
           /\ raw_text'[SrcRank] # raw_text[SrcRank]
           /\ raw_text'[SrcRank] = Some(<<>>)) =>
              /\ pc'[SrcRank] = "read_context"
              /\ terminate_runs' = terminate_runs
              /\ chan' = chan
              /\ issued' = issued
              /\ output' = output
              /\ forwards' = forwards]_vars

\* C13 witness: rank 0 has read an empty prompt after a prompt that it
\* wrote to the output and rejected, and is at the prompt again.
C13_Witness ==
    /\ raw_text[SrcRank] = Some(<<>>)
    /\ pc[SrcRank] = "read_context"
    /\ Len(output) = 1

\* C14: while the context rank 0 tokenized last is longer than
\* max_sequence_length, rank 0 is at the prompt (or has read "stop" there
\* and is about to broadcast flag 1) and in this round nothing has been
\* broadcast and no model call made; and no context longer than
\* max_sequence_length is in a broadcast, held by a rank past read_context,
\* or given to the model.
C14_LongContextRejected ==
    /\ (/\ context_length[SrcRank] # None
        /\ Val(context_length[SrcRank]) > args.max_sequence_length) =>
           /\ \/ pc[SrcRank] = "read_context" /\ terminate_runs[SrcRank] = 0
              \/ pc[SrcRank] = "bcast_flag" /\ terminate_runs[SrcRank] = 1
           /\ issued[SrcRank] = <<"barrier">>
           /\ \A r \in Ranks :
                 /\ chan[r] = <<>>
                 /\ forwards[r] = <<>>
                 /\ r # SrcRank => issued[r] = <<"barrier">>
    /\ \A r \in Ranks :
          /\ \A i \in 1..Len(chan[r]) : Len(chan[r][i]) <= args.max_sequence_length
          /\ InRound(r) => Len(Val(context_tokens[r])) <= args.max_sequence_length
          /\ forwards[r] # <<>> =>
                Len(forwards[r][1].tokens) <= args.max_sequence_length

\* C14 witness: rank 0 has written a prompt longer than max_sequence_length
\* to the output, rejected it, and is at the prompt again.
C14_Witness ==
    /\ pc[SrcRank] = "read_context"
    /\ context_length[SrcRank] # None
    /\ Val(context_length[SrcRank]) > args.max_sequence_length
    /\ Len(output) = 1

\* The context of rank r holds none of the designated mask-token ids.
NoDesignatedMask(r) ==
    \A k \in 1..Len(Val(context_tokens[r])) :
        Val(context_tokens[r])[k] \notin DesignatedMaskIds

\* C15 as stated: in block mode a round whose context holds none of the
\* designated mask-token ids makes no model call and writes no sample: it
\* fails with InvalidPromptError and rank 0 is back at the prompt.
C15_NoMaskIsInvalidPrompt ==
    \A r \in Ranks :
        (args.block_lm /\ InRound(r) /\ NoDesignatedMask(r)) =>
            /\ forwards[r] = <<>>
            /\ \A i \in 1..Len(output) : output[i].write # "sample"
            /\ pc[r] \in {"generate", "raised"}
            /\ pc[r] = "raised" => ss[r].raised = "InvalidPromptError"

\* ------------------------------------------------------------------------
\* Properties of the collectives of a round (under Spec)
\* ------------------------------------------------------------------------
IsPrefix(s, t) == Len(s) <= Len(t) /\ s = SubSeq(t, 1, Len(s))

RoundCollectives == <<"barrier", "flag", "length", "tokens", "barrier">>

Stopped(r) == pc[r] \in {"returned", "raised", "sync_error"}

\* Rank r is inside a broadcast, waiting for what rank 0 sends.
WaitsForBroadcast(r) ==
    /\ r # SrcRank
    /\ pc[r] \in {"bcast_flag", "bcast_len", "bcast_tokens"}
    /\ chan[r] = <<>>

\* C28: in every round the collectives a rank has issued are a prefix of
\* barrier, flag, length, tokens, barrier; once a rank has returned on flag 1
\* no rank issues more than barrier and flag in that round; no broadcast
\* meets a tensor of another size, the buffer a rank brings to the token
\* broadcast having the length rank 0's tokens have; a rank waiting inside a
\* broadcast waits for one that rank 0 has not issued yet and is still on
\* its way to, and a rank held in a barrier has no peer that has left the
\* loop.
C28_SameCollectivesOnAllRanks ==
    \A r \in Ranks :
        /\ pc[r] # "sync_error"
        /\ IsPrefix(issued[r], RoundCollectives)
        /\ pc[r] = "returned" =>
               \A q \in Ranks : IsPrefix(issued[q], <<"barrier", "flag">>)
        /\ (r # SrcRank /\ pc[r] = "bcast_tokens" /\ chan[r] # <<>>) =>
               Len(Head(chan[r])) = Len(TokensTensor(r))
        /\ WaitsForBroadcast(r) =>
               /\ issued[SrcRank] = issued[r]
               /\ pc[SrcRank] \in {"barrier_wait", "read_context", "bcast_flag",
                                   "bcast_len", "bcast_tokens"}
        /\ (pc[r] \in {"barrier_wait", "end_barrier_wait"}
                /\ r \notin barrier.released) =>
               \A q \in Ranks : ~Stopped(q)

\* Rank 0 has rejected a prompt and accepted the next one, and every rank
\* has gone through all the collectives of that round.
C28_Witness ==
    /\ Len(output) = 3
    /\ output[1].write = "prompt"
    /\ output[2].write = "prompt"
    /\ \A r \in Ranks : issued[r] = RoundCollectives

\* ------------------------------------------------------------------------
\* Properties of the model calls of a round (under Spec)
\* ------------------------------------------------------------------------
\* C21: the k-th model call of a round is given the mems that the (k-1)-th
\* call of that round returned, the first one the empty list; so the mems of
\* the encoding pass reach the first step of the first mask position's
\* sample_sequence call, and the mems of the last step for one mask position
\* reach the first step for the next.  The mems a rank holds between calls
\* are those of its latest model call.
C21_MemsThreaded ==
    \A r \in Ranks :
        /\ \A k \in 1..Len(forwards[r]) : forwards[r][k].mems = k - 1
        /\ pc[r] = "mask_loop" => gs[r].mems = Len(forwards[r])
        /\ pc[r] = "sample" => ss[r].mems = Len(forwards[r])

\* A round with two mask positions in which the call for the second
\* position has made a step, after a first span of at least one step.
C21_Witness ==
    \E r \in Ranks :
        /\ args.block_lm
        /\ pc[r] = "sample"
        /\ ss[r].call = 2
        /\ ss[r].counter >= 1
        /\ Len(gs[r].spans) = 1
        /\ Len(forwards[r]) >= 3

\* The mask positions (0-based) of a context that come before index i.
MasksBefore(tokens, i) ==
    {m \in 0..(Len(tokens) - 1) : tokens[m + 1] \in DesignatedMaskIds /\ m < i}

\* C23: with no_block_position set, in the encoding pass of a round the
\* position id of the context token of index i (0-based) is
\* i + out_seq_length * (number of mask positions before i).
C23_ShiftedPositionIds ==
    \A r \in Ranks :
        (args.block_lm /\ args.no_block_position /\ Len(forwards[r]) >= 1) =>
            LET call == forwards[r][1]
            IN  /\ Len(call.position_ids) = Len(call.tokens)
                /\ \A i \in 0..(Len(call.tokens) - 1) :
                       call.position_ids[i + 1] =
                           i + args.out_seq_length
                                   * Cardinality(MasksBefore(call.tokens, i))

\* The encoding pass of a context with two mask positions, tokens behind
\* each of them, has been made with no_block_position set.
C23_Witness ==
    \E r \in Ranks :
        /\ args.block_lm
        /\ args.no_block_position
        /\ Len(forwards[r]) >= 1
        /\ Cardinality(MasksBefore(forwards[r][1].tokens,
                                   Len(forwards[r][1].tokens) - 1)) = 2

\* The position ids of the model calls made for the k-th mask position of
\* the round: those of the finished call, or of the call under way.
SpanIds(r, k) ==
    IF k <= Len(gs[r].span_position_ids)
    THEN {gs[r].span_position_ids[k][i] : i \in 1..Len(gs[r].span_position_ids[k])}
    ELSE IF InSampleSequence(r) /\ ss[r].call = k
         THEN {ss[r].position_ids[i] : i \in 1..Len(ss[r].position_ids)}
         ELSE {}

\* C26: with no_block_position set, the position ids used for the span of a
\* mask position lie in p..(p + out_seq_length - 1), p being the position id
\* the encoding pass gave to that mask token; none of them is the position
\* id of a context token behind that mask, and the spans of two mask
\* positions share no position id.
C26_SpanPositionRanges ==
    \A r \in Ranks :
        (PastEncode(r) /\ args.no_block_position) =>
            \A k \in 1..Len(gs[r].mask_positions) :
                LET m == gs[r].mask_positions[k]
                    p == gs[r].position_ids[m + 1]
                IN  /\ SpanIds(r, k) \subseteq p..(p + args.out_seq_length - 1)
                    /\ \A i \in (m + 1)..(Len(gs[r].position_ids) - 1) :
                           gs[r].position_ids[i + 1] \notin SpanIds(r, k)
                    /\ \A j \in 1..Len(gs[r].mask_positions) :
                           j # k => SpanIds(r, k) \cap SpanIds(r, j) = {}

\* A round with two mask positions and a context token behind them has
\* ended, each span having used all out_seq_length position ids.
C26_Witness ==
    \E r \in Ranks :
        /\ args.block_lm
        /\ args.no_block_position
        /\ pc[r] = "end_barrier"
        /\ Len(gs[r].mask_positions) = 2
        /\ gs[r].mask_positions[2] + 1 < Len(gs[r].position_ids)
        /\ \A k \in 1..2 : Cardinality(SpanIds(r, k)) = args.out_seq_length

\* ------------------------------------------------------------------------
\* Properties of sample_sequence: parameters and modes (under SpecSample)
\* ------------------------------------------------------------------------
\* C12 as stated: a block-mode call with num_beams = 1 and temperature <= 0
\* samples no token,
\* and when it fails it fails with InvalidSamplingParameterError.
C12_NonPositiveTemperatureFails ==
    \A r \in Ranks :
        (/\ args.block_lm /\ args.num_beams = 1 /\ args.temperature <= 0
         /\ (InLoop(r) \/ pc[r] = "raised")) =>
            /\ ss[r].prev = None
            /\ pc[r] = "raised" => ss[r].raised = "InvalidSamplingParameterError"

\* C16 as stated: without block_lm a call that has left its entry is in its
\* loop or has returned, and its first model call, made at the first step,
\* is over the whole context with empty mems, with the position ids and the
\* attention mask of get_batch.
C16_CausalFirstStepOverContext ==
    \A r \in Ranks :
        (~args.block_lm /\ pc[r] \notin {"idle", "sample_entry"}) =>
            /\ pc[r] \in {"sample", "sample_return", "done"}
            /\ ss[r].counter >= 1 =>
                  /\ forwards[r] # <<>>
                  /\ forwards[r][1].tokens = ss[r].context_tokens
                  /\ forwards[r][1].mems = 0
                  /\ forwards[r][1].position_ids =
                        GetBatchPositionIds(Len(ss[r].context_tokens))
                  /\ forwards[r][1].attention_mask =
                        OnesMask(Len(ss[r].context_tokens))


\* C22: in a block-mode call of sample_sequence with context_length c, the
\* model call of step counter (0, 1, ...) gets the last token alone, a single
\* zero as attention mask, and as position ids the pair (c, counter + 1), or
\* the scalar c + counter when no_block_position is set.
C22_StepPositionIdsAndMask ==
    \A r \in Ranks :
        (args.block_lm /\ ss[r].caller = "test") =>
            \A k \in 1..Len(forwards[r]) :
                /\ Len(forwards[r][k].tokens) = 1
                /\ forwards[r][k].attention_mask = [kind |-> "zeros", size |-> 1]
                /\ forwards[r][k].position_ids =
                       IF args.no_block_position
                       THEN ss[r].context_length + (k - 1)
                       ELSE <<ss[r].context_length, k>>

\* A call with a context_length of at least 1 that has made three steps
\* with 2-D position ids.
C22_Witness ==
    \E r \in Ranks :
        /\ args.block_lm
        /\ ~args.no_block_position
        /\ ss[r].caller = "test"
        /\ ss[r].context_length >= 1
        /\ ss[r].counter >= 3
        /\ Len(forwards[r]) >= 3

\* ------------------------------------------------------------------------
\* Properties of beam search in sample_sequence (under SpecSample)
\* ------------------------------------------------------------------------
\* A block-mode call with num_beams > 1 that has gone through lines 133-153.
BeamCallStarted(r) ==
    /\ args.block_lm
    /\ args.num_beams > 1
    /\ pc[r] \notin {"idle", "sample_entry"}

\* The call has made a beam step: lines 166-205 have run at least once.
BeamStepDone(r) == ss[r].raised = "none" /\ ss[r].counter >= 1

\* C18 as stated: a beam search call runs its steps, and after every prune
\* step the beam indices that gathered the rows of tokens (line 201) have
\* gathered the rows of every mems tensor too (line 202): the call has not
\* failed, and once a step is done beam_idx is set and mems is still a cache.
C18_MemsGatheredWithBeamIdx ==
    \A r \in Ranks :
        BeamCallStarted(r) =>
            /\ ss[r].raised = "none"
            /\ (BeamStepDone(r) /\ args.out_seq_length >= 1) =>
                   /\ ss[r].beam_idx # None
                   /\ ss[r].mems >= 1

\* C19 as stated: a beam search call runs its steps, and from the first beam
\* step on num_beams hypotheses are live: the call has not failed, and once
\* a step is done last_beam_num (line 205), the number of rows the next
\* forward call is made for, is num_beams.
C19_NumBeamsLiveAfterPrune ==
    \A r \in Ranks :
        BeamCallStarted(r) =>
            /\ ss[r].raised = "none"
            /\ BeamStepDone(r) => ss[r].last_beam_num = Some(args.num_beams)

\* C20 as stated: a beam search call carries a cumulative score for each
\* live hypothesis, the sum of the log-probabilities of its tokens: the call
\* has not failed and beam_scores is set from its entry on (line 152: zero,
\* the empty sum, before the first step).
C20_BeamScoreIsSumOfLogProbs ==
    \A r \in Ranks :
        BeamCallStarted(r) =>
            /\ ss[r].raised = "none"
            /\ ss[r].beam_scores # None
            /\ ss[r].counter = 0 => ss[r].beam_scores = Some(<<0>>)

\* ------------------------------------------------------------------------
\* Properties of stream_generate (under SpecStream)
\* ------------------------------------------------------------------------
Generated(run) == SubSeq(run.input_ids, Len(StreamContext) + 1, Len(run.input_ids))

Greedy == sg.pc = "running" /\ ~sg.do_sample

Prepared == prep.pc = "done" /\ prep.model_inputs.raised = "none"

SeqLength == Len(prep.input_ids)

ContextLength == Index(prep.input_ids, prep.bos_token_id)

\* The index that seq.index(mask_token) finds: of MASK if there is one, of
\* gMASK otherwise.
MaskPosition ==
    IF Has(prep.input_ids, MASK) THEN Index(prep.input_ids, MASK)
    ELSE Index(prep.input_ids, gMASK)

\* C24: in the attention mask of the first step (no past) position i may
\* attend to position j exactly if j <= i, or both i and j lie before
\* context_length, the index of the bos token.
C24_PrefixVisibleElseCausal ==
    (Prepared /\ ~prep.past) =>
        /\ prep.model_inputs.attention_mask # None
        /\ \A i, j \in 0..(SeqLength - 1) :
              Val(prep.model_inputs.attention_mask)[i + 1][j + 1] =
                  IF j <= i \/ (i < ContextLength /\ j < ContextLength)
                  THEN 1 ELSE 0

\* A first step on a prefix of two tokens followed by two more: the first
\* token sees the second, the third does not see the fourth.
C24_Witness ==
    /\ Prepared
    /\ ~prep.past
    /\ ContextLength = 2
    /\ SeqLength = 4
    /\ Val(prep.model_inputs.attention_mask)[1][2] = 1
    /\ Val(prep.model_inputs.attention_mask)[3][4] = 0

\* C25 (as the code has it): in 2-D mode the first-step position ids are
\* pairs (token index, block offset); the block offset is 0 before
\* context_length and 1, 2, ... from context_length on; when the input holds
\* MASK the token index of every position from context_length on is the
\* mask position, and every other token index is the position's own.
C25_PositionIds2D ==
    (Prepared /\ ~prep.past /\ prep.position_encoding_2d) =>
        /\ Len(prep.model_inputs.position_ids) = SeqLength
        /\ \A i \in 0..(SeqLength - 1) :
              prep.model_inputs.position_ids[i + 1] =
                  << IF Has(prep.input_ids, MASK) /\ i >= ContextLength
                     THEN MaskPosition ELSE i,
                     IF i < ContextLength THEN 0 ELSE i - ContextLength + 1 >>

\* C25 (as stated): the same, with the mask position as the token index of
\* every position before context_length when the input holds MASK.
C25_PrefixTakesMaskPosition ==
    (Prepared /\ ~prep.past /\ prep.position_encoding_2d) =>
        /\ Len(prep.model_inputs.position_ids) = SeqLength
        /\ \A i \in 0..(SeqLength - 1) :
              prep.model_inputs.position_ids[i + 1] =
                  << IF Has(prep.input_ids, MASK) /\ i < ContextLength
                     THEN MaskPosition ELSE i,
                     IF i < ContextLength THEN 0 ELSE i - ContextLength + 1 >>

\* A first step in 2-D mode on [MASK, word, bos, word]: two positions
\* before context_length and two from it on, the mask at index 0.
C25_Witness ==
    /\ Prepared
    /\ ~prep.past
    /\ prep.position_encoding_2d
    /\ Has(prep.input_ids, MASK)
    /\ MaskPosition = 0
    /\ ContextLength = 2
    /\ SeqLength = 4

\* C27 as stated: on the cached path (past present) the position ids given
\* to the last token are those the full-sequence path gives to the last
\* index of the same input_ids.
C27_CachedEqualsFullSequence ==
    (Prepared /\ prep.past) =>
        LET full == get_masks_and_position_ids(prep.input_ids, MaskPosition,
                                               ~Has(prep.input_ids, MASK))
        IN  /\ full.raised = "none"
            /\ prep.model_inputs.position_ids = <<full.position_ids[SeqLength]>>
====
